---- MODULE Spec2Model ----
(***************************************************************************)
(* Model of zoneos.groups.GroupManager: the membership store               *)
(* (_coordinator, _members) and the operations initialize, set_members,    *)
(* _add_speaker, _remove_speaker and _remove_coordinator, each against     *)
(* device handles whose calls (join, unjoin, get_current_transport_info,   *)
(* group) may fail independently.                                          *)
(*                                                                         *)
(* One action is one whole call of a public operation.  A call is computed *)
(* as the set of its possible outcomes: every device call either succeeds  *)
(* or raises SoCoException, and every iteration over a Python set may take *)
(* any order.  An outcome is a record                                      *)
(*   [coordinator, members, phys, calls, err]                              *)
(* where calls is the log of device calls issued so far and err is "ok"    *)
(* or the name of the exception that is propagating.                       *)
(***************************************************************************)
EXTENDS Integers, Sequences, FiniteSets, TLC

\* Number of discovered speakers (names 1..NumSpeakers).
NumSpeakers == 3

\* The absent coordinator (Python None).
None == 0

\* SpeakerManager.speakers: the names that resolve to a device handle.
speakers == 1..NumSpeakers

\* A name that is not in the directory (speakers.get(name) is None).
Unknown == NumSpeakers + 1

\* Every name a caller can pass.
Names == speakers \cup {Unknown}

\* list(speakers.values()): the directory in discovery order.
speaker_list == [i \in 1..NumSpeakers |-> i]

\* Transport states a device can report.
TransportStates == {"PLAYING", "PAUSED_PLAYBACK", "STOPPED"}

\* Largest number of favorites the cache holds.
MaxFavorites == 3

\* The request-handling threads of the web server.
Threads == {1, 2}

\* Largest volume a caller passes, in either direction.
MaxVolume == 150

VARIABLES
    _coordinator,   \* GroupManager._coordinator: a speaker name or None
    _members,       \* GroupManager._members: set of speaker names
    phys,           \* physical grouping: phys[d] = c when d is attached to c, None when d stands alone
    fresh,          \* history: the last initialize created a new group and completed
    last,           \* the call that has just returned: its name, argument, the store before it, its device calls and its outcome
    _favorites,     \* FavoritesManager._favorites: the cached favorites (titles), in order
    current_favorite_index, \* SonosController.current_favorite_index
    ret,            \* what the controller or request handler that has just returned gave its caller
    index_before,   \* history: current_favorite_index when the call in last started
    threads,        \* per request thread: the set_members call it is executing
    interleaved     \* history: a thread's call went on after another thread acted in the middle of it

\* The variables outside GroupManager.
app == <<_favorites, current_favorite_index, ret, index_before, threads, interleaved>>

vars == <<_coordinator, _members, phys, fresh, last, _favorites, current_favorite_index,
          ret, index_before, threads, interleaved>>

----------------------------------------------------------------------------
\* Device handles

\* One device call in the log: the operation, the device it is issued to, the
\* coordinator passed (join) or reported (group), the member set reported
\* (group), and the result: "ok", a transport state, or "SoCoException".
Call(op, dev, to, members, res) == [op |-> op, dev |-> dev, to |-> to, members |-> members, res |-> res]

\* raise exc
Raise(s, exc) == [s EXCEPT !.err = exc]

\* Sequencing: run F on every outcome that has not raised.
Then(S, F(_)) == UNION {IF s.err = "ok" THEN F(s) ELSE {s} : s \in S}

\* except SoCoException as e: raise GroupOperationError(...)
ExceptSoCo(S) == {IF s.err = "SoCoException" THEN Raise(s, "GroupOperationError") ELSE s : s \in S}

\* The physical grouping when it is not followed (Spec follows the store and
\* the device calls only; SpecPhys follows the devices' grouping as well).
Untracked == <<>>

\* The physical grouping p with dev attached to c (None: standing alone).
Attach(p, dev, c) == IF p = Untracked THEN p ELSE [p EXCEPT ![dev] = c]

\* speaker.join(coordinator): attaches dev to c, or raises SoCoException.
join(s, dev, c) ==
    { [s EXCEPT !.phys = Attach(@, dev, c), !.calls = Append(@, Call("join", dev, c, {}, "ok"))],
      [s EXCEPT !.err = "SoCoException", !.calls = Append(@, Call("join", dev, c, {}, "SoCoException"))] }

\* speaker.unjoin(): detaches dev, or raises SoCoException.
unjoin(s, dev) ==
    { [s EXCEPT !.phys = Attach(@, dev, None), !.calls = Append(@, Call("unjoin", dev, None, {}, "ok"))],
      [s EXCEPT !.err = "SoCoException", !.calls = Append(@, Call("unjoin", dev, None, {}, "SoCoException"))] }

----------------------------------------------------------------------------
\* GroupManager

\* list(S) for a Python set S: the elements in any order.
list(S) == {q \in [1..Cardinality(S) -> S] : \A i, j \in 1..Cardinality(S) : q[i] = q[j] => i = j}

\* _add_speaker recording the member before the join is known to succeed.
_add_speaker_eager(s, speaker_name) ==
    IF speaker_name \notin speakers
    THEN {Raise(s, "SpeakerNotFoundError")}
    ELSE IF s.coordinator = None
    THEN {[s EXCEPT !.coordinator = speaker_name, !.members = {speaker_name}]}
    ELSE ExceptSoCo(join([s EXCEPT !.members = @ \cup {speaker_name}], speaker_name, s.coordinator))

\* _add_speaker detaching the device that starts an empty group.
_add_speaker_unjoins_first(s, speaker_name) ==
    IF speaker_name \notin speakers
    THEN {Raise(s, "SpeakerNotFoundError")}
    ELSE IF s.coordinator = None
    THEN ExceptSoCo(Then(unjoin(s, speaker_name),
                         LAMBDA r : {[r EXCEPT !.coordinator = speaker_name, !.members = {speaker_name}]}))
    ELSE ExceptSoCo(Then(join(s, speaker_name, s.coordinator),
                         LAMBDA r : {[r EXCEPT !.members = @ \cup {speaker_name}]}))

\* _add_speaker(speakers, speaker_name)
_add_speaker(s, speaker_name) ==
    IF speaker_name \notin speakers
    THEN {Raise(s, "SpeakerNotFoundError")}
    ELSE IF s.coordinator = None
    THEN {[s EXCEPT !.coordinator = speaker_name, !.members = {speaker_name}]}
    ELSE ExceptSoCo(Then(join(s, speaker_name, s.coordinator),
                         LAMBDA r : {[r EXCEPT !.members = @ \cup {speaker_name}]}))

\* The rejoin loop of _remove_coordinator:
\*   for member_name in remaining_members[1:]: unjoin, then join(new_coordinator)
RECURSIVE rejoin(_, _, _, _, _)
rejoin(s, remaining_members, i, new_coordinator, speaker_name) ==
    IF i > Len(remaining_members)
    THEN {s}
    ELSE LET member_name == remaining_members[i]
             body == IF member_name \in speakers /\ member_name # speaker_name
                     THEN Then(unjoin(s, member_name),
                               LAMBDA r : join(r, member_name, new_coordinator))
                     ELSE {s}
         IN  Then(body, LAMBDA r : rejoin(r, remaining_members, i + 1, new_coordinator, speaker_name))

\* _remove_coordinator without self._members.discard(speaker_name).
_remove_coordinator_keeps(s, speaker_name) ==
    IF Cardinality(s.members) = 0
    THEN Then(unjoin(s, speaker_name),
              LAMBDA r : {[r EXCEPT !.coordinator = None]})
    ELSE UNION {
           LET new_coordinator_name == remaining_members[1]
           IN  IF new_coordinator_name \notin speakers
               THEN {Raise(s, "GroupOperationError")}
               ELSE Then(Then(unjoin(s, new_coordinator_name),
                              LAMBDA r : rejoin([r EXCEPT !.coordinator = new_coordinator_name],
                                                remaining_members, 2,
                                                new_coordinator_name, speaker_name)),
                         LAMBDA r : unjoin(r, speaker_name))
           : remaining_members \in list(s.members) }

\* _remove_coordinator releasing the old coordinator before the promotion.
_remove_coordinator_releases_first(s, speaker_name) ==
    LET s1 == [s EXCEPT !.members = @ \ {speaker_name}]
    IN  IF Cardinality(s1.members) = 0
        THEN Then(unjoin(s1, speaker_name),
                  LAMBDA r : {[r EXCEPT !.coordinator = None]})
        ELSE UNION {
               LET new_coordinator_name == remaining_members[1]
               IN  Then(Then(unjoin(s1, speaker_name),
                             LAMBDA r : unjoin(r, new_coordinator_name)),
                        LAMBDA r : rejoin([r EXCEPT !.coordinator = new_coordinator_name],
                                          remaining_members, 2,
                                          new_coordinator_name, speaker_name))
               : remaining_members \in list(s1.members) }

\* _remove_coordinator putting the departing name back when a call fails.
_remove_coordinator_restores(s, speaker_name) ==
    LET s1 == [s EXCEPT !.members = @ \ {speaker_name}]
    IN  IF Cardinality(s1.members) = 0
        THEN {IF r.err = "ok" THEN [r EXCEPT !.coordinator = None] ELSE [r EXCEPT !.members = s.members]
                 : r \in unjoin(s1, speaker_name)}
        ELSE UNION {
               LET new_coordinator_name == remaining_members[1]
               IN  {IF r.err = "ok" THEN r ELSE [r EXCEPT !.members = s.members]
                      : r \in Then(Then(unjoin(s1, new_coordinator_name),
                                        LAMBDA r : rejoin([r EXCEPT !.coordinator = new_coordinator_name],
                                                          remaining_members, 2,
                                                          new_coordinator_name, speaker_name)),
                                   LAMBDA r : unjoin(r, speaker_name))}
               : remaining_members \in list(s1.members) }

\* _remove_coordinator(speakers, speaker, speaker_name)
_remove_coordinator(s, speaker_name) ==
    LET s1 == [s EXCEPT !.members = @ \ {speaker_name}]
    IN  IF Cardinality(s1.members) = 0
        THEN Then(unjoin(s1, speaker_name),
                  LAMBDA r : {[r EXCEPT !.coordinator = None]})
        ELSE UNION {
               LET new_coordinator_name == remaining_members[1]
               IN  IF new_coordinator_name \notin speakers
                   THEN {Raise(s1, "GroupOperationError")}
                   ELSE Then(Then(unjoin(s1, new_coordinator_name),
                                  LAMBDA r : rejoin([r EXCEPT !.coordinator = new_coordinator_name],
                                                    remaining_members, 2,
                                                    new_coordinator_name, speaker_name)),
                             LAMBDA r : unjoin(r, speaker_name))
               : remaining_members \in list(s1.members) }

\* _remove_speaker dropping a plain member before its unjoin is known to succeed.
_remove_speaker_eager(s, speaker_name) ==
    IF speaker_name \notin speakers
    THEN {Raise(s, "SpeakerNotFoundError")}
    ELSE IF speaker_name \notin s.members
    THEN {s}
    ELSE LET is_coordinator == s.coordinator # None /\ speaker_name = s.coordinator
         IN  ExceptSoCo(IF is_coordinator
                        THEN _remove_coordinator(s, speaker_name)
                        ELSE unjoin([s EXCEPT !.members = @ \ {speaker_name}], speaker_name))

\* _remove_speaker testing membership before resolving the name.
_remove_speaker_membership_first(s, speaker_name) ==
    IF speaker_name \notin s.members
    THEN {s}
    ELSE IF speaker_name \notin speakers
    THEN {Raise(s, "SpeakerNotFoundError")}
    ELSE LET is_coordinator == s.coordinator # None /\ speaker_name = s.coordinator
         IN  ExceptSoCo(IF is_coordinator
                        THEN _remove_coordinator(s, speaker_name)
                        ELSE Then(unjoin(s, speaker_name),
                                  LAMBDA r : {[r EXCEPT !.members = @ \ {speaker_name}]}))

\* _remove_speaker without the membership test: any resolvable device is
\* detached.
_remove_speaker_any(s, speaker_name) ==
    IF speaker_name \notin speakers
    THEN {Raise(s, "SpeakerNotFoundError")}
    ELSE LET is_coordinator == s.coordinator # None /\ speaker_name = s.coordinator
         IN  ExceptSoCo(IF is_coordinator
                        THEN _remove_coordinator(s, speaker_name)
                        ELSE Then(unjoin(s, speaker_name),
                                  LAMBDA r : {[r EXCEPT !.members = @ \ {speaker_name}]}))

\* _remove_speaker taking every member through the promotion protocol, the
\* coordinator or not.
_remove_speaker_promotes(s, speaker_name) ==
    IF speaker_name \notin speakers
    THEN {Raise(s, "SpeakerNotFoundError")}
    ELSE IF speaker_name \notin s.members
    THEN {s}
    ELSE ExceptSoCo(_remove_coordinator(s, speaker_name))

\* _remove_speaker(speakers, speaker_name)
_remove_speaker(s, speaker_name) ==
    IF speaker_name \notin speakers
    THEN {Raise(s, "SpeakerNotFoundError")}
    ELSE IF speaker_name \notin s.members
    THEN {s}
    ELSE LET is_coordinator == s.coordinator # None /\ speaker_name = s.coordinator
         IN  ExceptSoCo(IF is_coordinator
                        THEN _remove_coordinator(s, speaker_name)
                        ELSE Then(unjoin(s, speaker_name),
                                  LAMBDA r : {[r EXCEPT !.members = @ \ {speaker_name}]}))

\* for name in to_add: self._add_speaker(speakers, name)
RECURSIVE add_loop(_, _)
add_loop(s, to_add) ==
    IF to_add = {}
    THEN {s}
    ELSE UNION {Then(_add_speaker(s, name), LAMBDA r : add_loop(r, to_add \ {name})) : name \in to_add}

\* for name in to_remove: self._remove_speaker(speakers, name)
RECURSIVE remove_loop(_, _)
remove_loop(s, to_remove) ==
    IF to_remove = {}
    THEN {s}
    ELSE UNION {Then(_remove_speaker(s, name), LAMBDA r : remove_loop(r, to_remove \ {name})) : name \in to_remove}

\* set_members adding every requested name, current members included.
set_members_readds(s, member_names) ==
    IF member_names = {}
    THEN {Raise(s, "GroupOperationError")}
    ELSE Then(add_loop(s, member_names), LAMBDA r : remove_loop(r, s.members \ member_names))

\* set_members without the test for an empty list: every member is removed.
set_members_disbands(s, member_names) ==
    LET new_members == member_names
        current_members == s.members
        to_add == new_members \ current_members
        to_remove == current_members \ new_members
    IN  Then(add_loop(s, to_add), LAMBDA r : remove_loop(r, to_remove))

\* set_members applying the removes before the adds.
set_members_removes_first(s, member_names) ==
    IF member_names = {}
    THEN {Raise(s, "GroupOperationError")}
    ELSE LET new_members == member_names
             current_members == s.members
             to_add == new_members \ current_members
             to_remove == current_members \ new_members
         IN  Then(remove_loop(s, to_remove), LAMBDA r : add_loop(r, to_add))

\* set_members removing through the promotion protocol whatever is removed.
set_members_promotes(s, member_names) ==
    IF member_names = {}
    THEN {Raise(s, "GroupOperationError")}
    ELSE LET new_members == member_names
             current_members == s.members
             to_add == new_members \ current_members
             to_remove == current_members \ new_members
         IN  Then(add_loop(s, to_add),
                  LAMBDA r : IF to_remove = {}
                             THEN {r}
                             ELSE ExceptSoCo(_remove_coordinator(r, CHOOSE name \in to_remove : TRUE)))

\* set_members(speakers, member_names)
set_members(s, member_names) ==
    IF member_names = {}
    THEN {Raise(s, "GroupOperationError")}
    ELSE LET new_members == member_names
             current_members == s.members
             to_add == new_members \ current_members
             to_remove == current_members \ new_members
         IN  Then(add_loop(s, to_add), LAMBDA r : remove_loop(r, to_remove))

\* scan giving up at the first query that raises.
RECURSIVE scan_aborts(_, _)
scan_aborts(s, i) ==
    IF i > Len(speaker_list)
    THEN {[st |-> s, playing_speaker |-> None]}
    ELSE LET speaker == speaker_list[i]
             q(t) == [s EXCEPT !.calls = Append(@, Call("get_current_transport_info", speaker, None, {}, t))]
         IN  UNION {
               {[st |-> q("SoCoException"), playing_speaker |-> None]},
               UNION {IF t \in {"PLAYING", "PAUSED_PLAYBACK"}
                      THEN {[st |-> q(t), playing_speaker |-> speaker]}
                      ELSE scan_aborts(q(t), i + 1) : t \in TransportStates} }

\* The scan of initialize for a playing speaker, from list position i on:
\* each outcome pairs the state with playing_speaker (None when the scan ends
\* without one).  A query that raises SoCoException is skipped.
RECURSIVE scan(_, _)
scan(s, i) ==
    IF i > Len(speaker_list)
    THEN {[st |-> s, playing_speaker |-> None]}
    ELSE LET speaker == speaker_list[i]
             q(t) == [s EXCEPT !.calls = Append(@, Call("get_current_transport_info", speaker, None, {}, t))]
         IN  UNION {
               scan(q("SoCoException"), i + 1),
               UNION {IF t \in {"PLAYING", "PAUSED_PLAYBACK"}
                      THEN {[st |-> q(t), playing_speaker |-> speaker]}
                      ELSE scan(q(t), i + 1) : t \in TransportStates} }

\* for speaker in speaker_list: speaker.unjoin()
RECURSIVE unjoin_loop(_, _)
unjoin_loop(s, i) ==
    IF i > Len(speaker_list)
    THEN {s}
    ELSE Then(unjoin(s, speaker_list[i]), LAMBDA r : unjoin_loop(r, i + 1))

\* for speaker in speaker_list[1:]: speaker.join(self._coordinator)
RECURSIVE join_loop(_, _)
join_loop(s, i) ==
    IF i > Len(speaker_list)
    THEN {s}
    ELSE Then(join(s, speaker_list[i], s.coordinator), LAMBDA r : join_loop(r, i + 1))

\* create_group joining every speaker, the first one included.
create_group_joins_all(s) ==
    LET s1 == [s EXCEPT !.coordinator = speaker_list[1],
                        !.members = {speaker_list[i] : i \in 1..Len(speaker_list)}]
    IN  ExceptSoCo(Then(unjoin_loop(s1, 1), LAMBDA r : join_loop(r, 1)))

\* create_group restoring the store when a device call fails.
create_group_rolls_back(s) ==
    LET s1 == [s EXCEPT !.coordinator = speaker_list[1],
                        !.members = {speaker_list[i] : i \in 1..Len(speaker_list)}]
    IN  {IF r.err = "ok" THEN r ELSE [r EXCEPT !.coordinator = s.coordinator, !.members = s.members]
            : r \in ExceptSoCo(Then(unjoin_loop(s1, 1), LAMBDA r : join_loop(r, 2)))}

\* create_group letting SoCoException through.
create_group_raw(s) ==
    LET s1 == [s EXCEPT !.coordinator = speaker_list[1],
                        !.members = {speaker_list[i] : i \in 1..Len(speaker_list)}]
    IN  Then(unjoin_loop(s1, 1), LAMBDA r : join_loop(r, 2))

\* initialize, lines 75-94: create a new group from all speakers.
create_group(s) ==
    LET s1 == [s EXCEPT !.coordinator = speaker_list[1],
                        !.members = {speaker_list[i] : i \in 1..Len(speaker_list)}]
    IN  ExceptSoCo(Then(unjoin_loop(s1, 1), LAMBDA r : join_loop(r, 2)))

\* playing_speaker.group: the device's own report of its group, a coordinator
\* and a member set holding the coordinator and the device itself.
GroupSnapshots(speaker) ==
    {g \in [coordinator : speakers, members : SUBSET speakers] :
        g.coordinator \in g.members /\ speaker \in g.members}

\* preserve_group raising when the snapshot cannot be read.
preserve_group_raises(s, playing_speaker) ==
    {[s EXCEPT !.coordinator = g.coordinator, !.members = g.members,
               !.calls = Append(@, Call("group", playing_speaker, g.coordinator, g.members, "ok"))]
        : g \in GroupSnapshots(playing_speaker)}
    \cup {[s EXCEPT !.err = "GroupOperationError",
                    !.calls = Append(@, Call("group", playing_speaker, None, {}, "SoCoException"))]}

\* preserve_group taking the playing speaker itself as the coordinator.
preserve_group_self(s, playing_speaker) ==
    {[s EXCEPT !.coordinator = playing_speaker, !.members = g.members,
               !.calls = Append(@, Call("group", playing_speaker, g.coordinator, g.members, "ok"))]
        : g \in GroupSnapshots(playing_speaker)}
    \cup create_group([s EXCEPT !.calls = Append(@, Call("group", playing_speaker, None, {}, "SoCoException"))])

\* initialize, lines 57-73: adopt the playing speaker's group; when reading it
\* raises, fall through to creating a new group.
preserve_group(s, playing_speaker) ==
    {[s EXCEPT !.coordinator = g.coordinator, !.members = g.members,
               !.calls = Append(@, Call("group", playing_speaker, g.coordinator, g.members, "ok"))]
        : g \in GroupSnapshots(playing_speaker)}
    \cup create_group([s EXCEPT !.calls = Append(@, Call("group", playing_speaker, None, {}, "SoCoException"))])

\* initialize(speakers); the directory is never empty here.
initialize(s) ==
    UNION {IF r.playing_speaker # None
           THEN preserve_group(r.st, r.playing_speaker)
           ELSE create_group(r.st) : r \in scan(s, 1)}

----------------------------------------------------------------------------
\* FavoritesManager, PlaybackController

\* get_by_title(speaker, title): asks the device for its favorites and returns
\* the one with this title; the query may raise SoCoException, and the title
\* may be gone from the device (FavoriteNotFoundError).  Each outcome pairs the
\* state with the favorite returned (None when raising).
get_by_title(s, speaker, title) ==
    { [st |-> [s EXCEPT !.calls = Append(@, Call("get_sonos_favorites", speaker, title, {}, "ok"))],
       favorite |-> title],
      [st |-> [s EXCEPT !.err = "FavoriteNotFoundError",
                        !.calls = Append(@, Call("get_sonos_favorites", speaker, None, {}, "ok"))],
       favorite |-> None],
      [st |-> [s EXCEPT !.err = "SoCoException",
                        !.calls = Append(@, Call("get_sonos_favorites", speaker, None, {}, "SoCoException"))],
       favorite |-> None] }

\* get_by_index(speaker, index): index < 1 or index > len(self._favorites)
\* raises IndexError; otherwise the favorite is self._favorites[index - 1],
\* the element at position index - 1 counted from 0, which is the element
\* number index of the sequence.
get_by_index(s, speaker, index) ==
    IF index < 1 \/ index > Len(_favorites)
    THEN {[st |-> Raise(s, "IndexError"), favorite |-> None]}
    ELSE get_by_title(s, speaker, _favorites[(index - 1) + 1])

\* play_uri_with_metadata(speaker, uri, metadata): speaker.play_uri, with
\* SoCoException turned into PlaybackError.
play_uri_with_metadata(s, speaker, favorite) ==
    { [s EXCEPT !.calls = Append(@, Call("play_uri", speaker, favorite, {}, "ok"))],
      [s EXCEPT !.err = "PlaybackError",
                !.calls = Append(@, Call("play_uri", speaker, favorite, {}, "SoCoException"))] }

----------------------------------------------------------------------------
\* SonosController (controller.py)

\* What a method that catches its exceptions gives its caller: the state it
\* leaves and the value returned.  s.err keeps the exception that was caught
\* and logged ("return False": an early return without an exception).
Returns(s, value) == [st |-> s, ret |-> value]

\* The same for the methods that assign current_favorite_index.
Gives(s, index, value) == [st |-> s, current_favorite_index |-> index, ret |-> value]

\* set_group(speaker_names)
set_group(s, speaker_names) ==
    {Returns(r, IF r.err = "ok" THEN "True" ELSE "False") : r \in set_members(s, speaker_names)}

\* play_favorite_by_index without the automatic initialize: no coordinator,
\* nothing played.
play_favorite_by_index_needs_group(s, cfi, index) ==
    LET play(g) == IF g.coordinator = None
                   THEN {Raise(g, "return False")}
                   ELSE UNION {IF f.st.err = "ok"
                               THEN play_uri_with_metadata(f.st, g.coordinator, f.favorite)
                               ELSE {f.st} : f \in get_by_index(g, g.coordinator, index)}
    IN  {IF r.err = "ok" THEN Gives(r, index, "True") ELSE Gives(r, cfi, "False")
            : r \in play(s)}

\* play_favorite_by_index(index)
play_favorite_by_index(s, cfi, index) ==
    LET grouped == IF s.coordinator = None
                   THEN IF speakers # {}
                        THEN initialize(s)
                        ELSE {Raise(s, "return False")}
                   ELSE {s}
        play(g) == IF g.coordinator = None
                   THEN {Raise(g, "return False")}
                   ELSE UNION {IF f.st.err = "ok"
                               THEN play_uri_with_metadata(f.st, g.coordinator, f.favorite)
                               ELSE {f.st} : f \in get_by_index(g, g.coordinator, index)}
    IN  {IF r.err = "ok" THEN Gives(r, index, "True") ELSE Gives(r, cfi, "False")
            : r \in Then(grouped, play)}

\* play_next_favorite()
play_next_favorite(s, cfi) ==
    LET favorites == _favorites
    IN  IF Len(favorites) = 0
        THEN {Gives(Raise(s, "return False"), cfi, "False")}
        ELSE LET next_index == (cfi + 1) % Len(favorites)
             IN  play_favorite_by_index(s, cfi, next_index)

----------------------------------------------------------------------------
\* The request layer (api.py)

\* POST /api/group with a list of names in the "speakers" field: the empty
\* list is answered 400 before the controller is called; otherwise the answer
\* is 200 or 400 as sonos_controller.set_group(speakers) returns True or
\* False.  success is the set of outcomes of that call on the controller
\* that is installed.
api_set_group(s, data, success) ==
    IF Cardinality(data) = 0
    THEN {Returns(s, "400")}
    ELSE {Returns(r.st, IF r.ret = "True" THEN "200" ELSE "400") : r \in success}

----------------------------------------------------------------------------
\* The legacy SonosController (sonos.py), which main() installs.  Its store is
\* _group_coordinator and _group_members; its methods catch SoCoException and
\* return False.

\* try: ...; return True
\* except SoCoException: return False
\* Any other exception propagates.
ReturnBool(S) ==
    {IF r.err = "ok" THEN Returns(r, "True")
     ELSE IF r.err = "SoCoException" THEN Returns(r, "False")
     ELSE Returns(r, "None") : r \in S}

\* _initialize_group(list(self.speakers.keys())): every name resolves, so
\* speakers_to_group is the whole directory in order.
_initialize_group(s) ==
    LET speakers_to_group == speaker_list
    IN  IF Len(speakers_to_group) = 0
        THEN {Returns(s, "False")}
        ELSE LET s1 == [s EXCEPT !.coordinator = speakers_to_group[1],
                                 !.members = {speakers_to_group[i] : i \in 1..Len(speakers_to_group)}]
             IN  ReturnBool(Then(unjoin_loop(s1, 1), LAMBDA r : join_loop(r, 2)))

\* _add_speaker_to_group recording the member before the join is known to
\* succeed.
_add_speaker_to_group_eager(s, speaker_name) ==
    IF speaker_name \notin speakers
    THEN {Returns(s, "False")}
    ELSE IF s.coordinator = None
    THEN {Returns([s EXCEPT !.coordinator = speaker_name, !.members = {speaker_name}], "True")}
    ELSE ReturnBool(join([s EXCEPT !.members = @ \cup {speaker_name}], speaker_name, s.coordinator))

\* _add_speaker_to_group(speaker_name)
_add_speaker_to_group(s, speaker_name) ==
    IF speaker_name \notin speakers
    THEN {Returns(s, "False")}
    ELSE IF s.coordinator = None
    THEN {Returns([s EXCEPT !.coordinator = speaker_name, !.members = {speaker_name}], "True")}
    ELSE ReturnBool(Then(join(s, speaker_name, s.coordinator),
                         LAMBDA r : {[r EXCEPT !.members = @ \cup {speaker_name}]}))

\* _remove_speaker_from_group(speaker_name)
_remove_speaker_from_group(s, speaker_name) ==
    IF speaker_name \notin speakers
    THEN {Returns(s, "False")}
    ELSE IF speaker_name \notin s.members
    THEN {Returns(s, "True")}
    ELSE LET is_coordinator == s.coordinator # None /\ speaker_name = s.coordinator
             s1 == [s EXCEPT !.members = @ \ {speaker_name}]
         IN  ReturnBool(
               IF is_coordinator
               THEN IF Cardinality(s1.members) = 0
                    THEN Then(unjoin(s1, speaker_name),
                              LAMBDA r : {[r EXCEPT !.coordinator = None]})
                    ELSE UNION {
                           LET new_coordinator_name == remaining_members[1]
                           IN  IF new_coordinator_name \notin speakers
                               THEN {Raise(s1, "AttributeError")}
                               ELSE Then(Then(unjoin(s1, new_coordinator_name),
                                              LAMBDA r : rejoin([r EXCEPT !.coordinator = new_coordinator_name],
                                                                remaining_members, 2,
                                                                new_coordinator_name, speaker_name)),
                                         LAMBDA r : unjoin(r, speaker_name))
                           : remaining_members \in list(s1.members) }
               ELSE Then(unjoin(s, speaker_name),
                         LAMBDA r : {[r EXCEPT !.members = @ \ {speaker_name}]}))

\* The state a caller goes on from after a method caught its exception.
Caught(s) == [s EXCEPT !.err = "ok"]

\* for name in to_add: if not self._add_speaker_to_group(name): log
RECURSIVE sonos_add_loop(_, _)
sonos_add_loop(s, to_add) ==
    IF to_add = {}
    THEN {s}
    ELSE UNION {UNION {IF r.ret = "None" THEN {r.st} ELSE sonos_add_loop(Caught(r.st), to_add \ {name})
                          : r \in _add_speaker_to_group(s, name)} : name \in to_add}

\* for name in to_remove: if not self._remove_speaker_from_group(name): log
RECURSIVE sonos_remove_loop(_, _)
sonos_remove_loop(s, to_remove) ==
    IF to_remove = {}
    THEN {s}
    ELSE UNION {UNION {IF r.ret = "None" THEN {r.st} ELSE sonos_remove_loop(Caught(r.st), to_remove \ {name})
                          : r \in _remove_speaker_from_group(s, name)} : name \in to_remove}

\* set_group(speaker_names) of sonos.py
sonos_set_group(s, speaker_names) ==
    IF speaker_names = {}
    THEN {Returns(s, "False")}
    ELSE LET new_members == speaker_names
             current_members == s.members
             to_add == new_members \ current_members
             to_remove == current_members \ new_members
         IN  {IF r.err = "ok" THEN Returns(r, "True") ELSE Returns(r, "None")
                : r \in Then(sonos_add_loop(s, to_add), LAMBDA a : sonos_remove_loop(a, to_remove))}

----------------------------------------------------------------------------
\* The public operations as actions

\* The state an operation starts from.
Start == [coordinator |-> _coordinator, members |-> _members, phys |-> phys,
          calls |-> <<>>, err |-> "ok"]

\* The state an operation leaves, with the record of the operation.
Finish(op, arg, r) ==
    /\ _coordinator' = r.coordinator
    /\ _members' = r.members
    /\ phys' = r.phys
    /\ fresh' = IF op = "initialize"
                THEN r.err = "ok" /\ \E i \in 1..Len(r.calls) : r.calls[i].op = "unjoin"
                ELSE fresh
    /\ last' = [op |-> op, arg |-> arg,
                coordinator |-> _coordinator, members |-> _members,
                calls |-> r.calls, err |-> r.err]
    /\ UNCHANGED app

\* No call is in progress: the caller has taken the result of the last one.
Idle == [op |-> "idle", arg |-> {}, coordinator |-> None, members |-> {},
         calls |-> <<>>, err |-> "ok"]

Initialize == last = Idle /\ \E r \in initialize(Start) : Finish("initialize", {}, r)

SetMembers == last = Idle /\ \E member_names \in SUBSET Names :
                 \E r \in set_members(Start, member_names) : Finish("set_members", member_names, r)

AddMember == last = Idle /\ \E name \in Names :
                \E r \in _add_speaker(Start, name) : Finish("_add_speaker", {name}, r)

RemoveMember == last = Idle /\ \E name \in Names :
                   \E r \in _remove_speaker(Start, name) : Finish("_remove_speaker", {name}, r)

\* The call has returned or raised into its caller, which keeps nothing of it.
Return ==
    /\ last # Idle
    /\ last' = Idle
    /\ ret' = "None"
    /\ index_before' = current_favorite_index
    /\ UNCHANGED <<_coordinator, _members, phys, fresh, _favorites, current_favorite_index,
                   threads, interleaved>>

\* A request thread that is handling no request.
NoRequest == [pc |-> "idle", to_add |-> {}, to_remove |-> {}, acted |-> FALSE, cut |-> FALSE]

\* SonosController.__init__, lines 20-23, with the given favorites cached; no
\* request has been received.
AppAtRest(favorites) ==
    /\ _favorites = favorites
    /\ current_favorite_index = 0
    /\ ret = "None"
    /\ index_before = 0
    /\ threads = [t \in Threads |-> NoRequest]
    /\ interleaved = FALSE

\* GroupManager.__init__
Init ==
    /\ _coordinator = None
    /\ _members = {}
    /\ phys = Untracked
    /\ fresh = FALSE
    /\ last = Idle
    /\ AppAtRest(<<>>)

\* GroupManager.__init__, with the devices' grouping followed: they stand alone
\* or are all attached to one of them from an earlier session.
InitPhys ==
    /\ _coordinator = None
    /\ _members = {}
    /\ phys \in {[d \in speakers |-> None]} \cup {[d \in speakers |-> IF d = c THEN None ELSE c] : c \in speakers}
    /\ fresh = FALSE
    /\ last = Idle
    /\ AppAtRest(<<>>)

Next == Initialize \/ SetMembers \/ AddMember \/ RemoveMember \/ Return

Spec == Init /\ [][Next]_vars

SpecPhys == InitPhys /\ [][Next]_vars

----------------------------------------------------------------------------
\* The controller of controller.py, with the request handler in front of it

\* The state a controller method or request handler leaves, with its record.
FinishApp(op, arg, r, index, value) ==
    /\ _coordinator' = r.coordinator
    /\ _members' = r.members
    /\ phys' = r.phys
    /\ fresh' = IF \E i \in 1..Len(r.calls) : r.calls[i].op = "get_current_transport_info"
                THEN /\ \E i \in 1..Len(r.calls) : r.calls[i].op = "unjoin"
                     /\ \A i \in 1..Len(r.calls) :
                            r.calls[i].op \in {"join", "unjoin"} => r.calls[i].res = "ok"
                ELSE fresh
    /\ last' = [op |-> op, arg |-> arg,
                coordinator |-> _coordinator, members |-> _members,
                calls |-> r.calls, err |-> r.err]
    /\ current_favorite_index' = index
    /\ index_before' = current_favorite_index
    /\ ret' = value
    /\ UNCHANGED <<_favorites, threads, interleaved>>

\* The indexes a caller passes: every position of the largest cache, and one
\* beyond it on either side.
Indexes == (0 - 1)..(MaxFavorites + 1)

SetGroup == last = Idle /\ \E speaker_names \in SUBSET Names :
               \E r \in set_group(Start, speaker_names) :
                  FinishApp("set_group", speaker_names, r.st, current_favorite_index, r.ret)

PostGroup == last = Idle /\ \E data \in SUBSET Names :
                \E r \in api_set_group(Start, data, set_group(Start, data)) :
                   FinishApp("POST /api/group", data, r.st, current_favorite_index, r.ret)

PlayFavoriteByIndex == last = Idle /\ \E index \in Indexes :
                          \E r \in play_favorite_by_index(Start, current_favorite_index, index) :
                             FinishApp("play_favorite_by_index", {index}, r.st, r.current_favorite_index, r.ret)

PlayNextFavorite == last = Idle /\ \E r \in play_next_favorite(Start, current_favorite_index) :
                       FinishApp("play_next_favorite", {}, r.st, r.current_favorite_index, r.ret)

\* SonosController.__init__ before the start-up grouping, with any number of
\* favorites (titles 1..n) refreshed into the cache.
InitApp ==
    /\ _coordinator = None
    /\ _members = {}
    /\ phys = Untracked
    /\ fresh = FALSE
    /\ last = Idle
    /\ \E n \in 0..MaxFavorites : AppAtRest([i \in 1..n |-> i])

NextApp == Next \/ SetGroup \/ PostGroup \/ PlayFavoriteByIndex \/ PlayNextFavorite

SpecApp == InitApp /\ [][NextApp]_vars

----------------------------------------------------------------------------
\* The application main() starts: the legacy controller of sonos.py behind
\* the request handler

SonosPostGroup == last = Idle /\ \E data \in SUBSET Names :
                     \E r \in api_set_group(Start, data, sonos_set_group(Start, data)) :
                        FinishApp("POST /api/group", data, r.st, current_favorite_index, r.ret)

SonosAddSpeaker == last = Idle /\ \E name \in Names :
                      \E r \in _add_speaker_to_group(Start, name) :
                         FinishApp("_add_speaker_to_group", {name}, r.st, current_favorite_index, r.ret)

SonosRemoveSpeaker == last = Idle /\ \E name \in Names :
                         \E r \in _remove_speaker_from_group(Start, name) :
                            FinishApp("_remove_speaker_from_group", {name}, r.st, current_favorite_index, r.ret)

\* main(): SonosController() of sonos.py has been constructed, while the
\* devices in playing were playing or paused; last records the construction.
InitMain ==
    \E playing \in SUBSET speakers :
        \E r \in _initialize_group([coordinator |-> None, members |-> {}, phys |-> Untracked,
                                    calls |-> <<>>, err |-> "ok"]) :
            /\ _coordinator = r.st.coordinator
            /\ _members = r.st.members
            /\ phys = r.st.phys
            /\ fresh = FALSE
            /\ last = [op |-> "main", arg |-> playing, coordinator |-> None, members |-> {},
                       calls |-> r.st.calls, err |-> r.st.err]
            /\ _favorites = <<>>
            /\ current_favorite_index = 0
            /\ ret = r.ret
            /\ index_before = 0
            /\ threads = [t \in Threads |-> NoRequest]
            /\ interleaved = FALSE

NextMain == SonosPostGroup \/ SonosAddSpeaker \/ SonosRemoveSpeaker \/ Return

SpecMain == InitMain /\ [][NextMain]_vars

----------------------------------------------------------------------------
\* Requests handled by two threads of the web server.  Nothing in api.py or
\* controller.py takes a lock, so a thread can be switched wherever it waits
\* for a device; here it is switched between the iterations of the loops of
\* set_members, each of which is one call of _add_speaker or _remove_speaker.

\* What one iteration of the loops of set_members can lead to: the state and
\* the names still to add and to remove.
Iteration(th) ==
    IF th.to_add # {}
    THEN UNION {{[st |-> r, to_add |-> th.to_add \ {name}, to_remove |-> th.to_remove]
                    : r \in _add_speaker(Start, name)} : name \in th.to_add}
    ELSE UNION {{[st |-> r, to_add |-> th.to_add, to_remove |-> th.to_remove \ {name}]
                    : r \in _remove_speaker(Start, name)} : name \in th.to_remove}

\* Thread t receives POST /api/group with a non-empty list and enters
\* set_members, lines 108-116: to_add and to_remove are computed once.
Receive(t) ==
    /\ threads[t].pc = "idle"
    /\ \E speaker_names \in (SUBSET Names) \ {{}} :
          LET new_members == speaker_names
              current_members == _members
              to_add == new_members \ current_members
              to_remove == current_members \ new_members
          IN  threads' = [threads EXCEPT ![t] =
                             IF to_add = {} /\ to_remove = {}
                             THEN NoRequest
                             ELSE [pc |-> "set_members", to_add |-> to_add, to_remove |-> to_remove,
                                   acted |-> FALSE, cut |-> FALSE]]
    /\ UNCHANGED <<_coordinator, _members, phys, fresh, last, _favorites, current_favorite_index,
                   ret, index_before, interleaved>>

\* Thread t runs the next iteration of its set_members.  The iteration acts
\* when it issues a device call or changes the store; a thread in the middle
\* of its call is cut when another thread acts.
Step(t) ==
    /\ threads[t].pc = "set_members"
    /\ \E o \in Iteration(threads[t]) :
          LET touched == \/ o.st.calls # <<>>
                         \/ o.st.coordinator # _coordinator
                         \/ o.st.members # _members
              done == o.st.err # "ok" \/ (o.to_add = {} /\ o.to_remove = {})
          IN  /\ _coordinator' = o.st.coordinator
              /\ _members' = o.st.members
              /\ phys' = o.st.phys
              /\ interleaved' = (interleaved \/ (touched /\ threads[t].cut))
              /\ threads' = [u \in Threads |->
                                IF u = t
                                THEN IF done
                                     THEN NoRequest
                                     ELSE [pc |-> "set_members", to_add |-> o.to_add, to_remove |-> o.to_remove,
                                           acted |-> (threads[t].acted \/ touched), cut |-> threads[t].cut]
                                ELSE IF threads[u].pc = "set_members" /\ threads[u].acted /\ touched
                                     THEN [threads[u] EXCEPT !.cut = TRUE]
                                     ELSE threads[u]]
    /\ UNCHANGED <<fresh, last, _favorites, current_favorite_index, ret, index_before>>

\* The controller has been constructed: the store is empty, or holds the group
\* of all speakers that the start-up grouping created.
InitConcurrent ==
    /\ \/ _coordinator = None /\ _members = {}
       \/ _coordinator = speaker_list[1] /\ _members = speakers
    /\ phys = Untracked
    /\ fresh = FALSE
    /\ last = Idle
    /\ AppAtRest(<<>>)

NextConcurrent == \E t \in Threads : Receive(t) \/ Step(t)

SpecConcurrent == InitConcurrent /\ [][NextConcurrent]_vars

----------------------------------------------------------------------------
\* SpeakerManager.set_volume, called through SonosController.set_volume

\* round(a / b) for integers a and b > 0: Python rounds the quotient to the
\* nearest integer, and a quotient halfway between two integers to the even
\* one.
round(a, b) ==
    LET q == a \div b
        r == a % b
    IN  IF 2 * r < b THEN q
        ELSE IF 2 * r > b THEN q + 1
        ELSE IF q % 2 = 0 THEN q ELSE q + 1

\* max(a, b), min(a, b)
max(a, b) == IF a >= b THEN a ELSE b

min(a, b) == IF a <= b THEN a ELSE b

\* set_volume writing the clamped volume without rounding it.
set_volume_unrounded(s, speaker_name, volume) ==
    IF speaker_name \notin speakers
    THEN {Raise(s, "SpeakerNotFoundError")}
    ELSE LET clamped_volume == max(0, min(100, volume))
         IN  { [s EXCEPT !.calls = Append(@, Call("volume", speaker_name, clamped_volume, {}, "ok"))],
               [s EXCEPT !.err = "SoCoException",
                         !.calls = Append(@, Call("volume", speaker_name, clamped_volume, {}, "SoCoException"))] }

\* SpeakerManager.set_volume(speaker_name, volume): the assignment to
\* speaker.volume is the device call, which may raise SoCoException.
set_volume(s, speaker_name, volume) ==
    IF speaker_name \notin speakers
    THEN {Raise(s, "SpeakerNotFoundError")}
    ELSE LET rounded_volume == round(volume, 5) * 5
             clamped_volume == max(0, min(100, rounded_volume))
         IN  { [s EXCEPT !.calls = Append(@, Call("volume", speaker_name, clamped_volume, {}, "ok"))],
               [s EXCEPT !.err = "SoCoException",
                         !.calls = Append(@, Call("volume", speaker_name, clamped_volume, {}, "SoCoException"))] }

\* The volumes a caller passes.
Volumes == (0 - MaxVolume)..MaxVolume

\* SonosController.set_volume(speaker_name, volume)
SetVolume == last = Idle /\ \E speaker_name \in Names, volume \in Volumes :
                \E r \in set_volume(Start, speaker_name, volume) :
                   FinishApp("set_volume", {volume}, r, current_favorite_index,
                             IF r.err = "ok" THEN "True" ELSE "False")

NextVolume == SetVolume \/ Return

SpecVolume == Init /\ [][NextVolume]_vars

----------------------------------------------------------------------------
\* Failure-free use of GroupManager: a fresh group is created by an initialize
\* that completes, and every later call is given resolvable names and meets
\* no failing device call.  The devices' grouping is followed.

\* No device call of outcome r failed and nothing was raised.
FailureFree(r) == r.err = "ok" /\ \A i \in 1..Len(r.calls) : r.calls[i].res # "SoCoException"

\* initialize that creates a fresh group and completes (queries that fail
\* during the scan are skipped, as they are in every initialize).
InitializeFresh ==
    /\ last = Idle
    /\ ~fresh
    /\ \E r \in initialize(Start) :
          /\ r.err = "ok"
          /\ \E i \in 1..Len(r.calls) : r.calls[i].op = "unjoin"
          /\ Finish("initialize", {}, r)

SetMembersOk == last = Idle /\ fresh /\ \E member_names \in (SUBSET speakers) \ {{}} :
                   \E r \in set_members(Start, member_names) :
                      FailureFree(r) /\ Finish("set_members", member_names, r)

AddMemberOk == last = Idle /\ fresh /\ \E name \in speakers :
                  \E r \in _add_speaker(Start, name) :
                     FailureFree(r) /\ Finish("_add_speaker", {name}, r)

RemoveMemberOk == last = Idle /\ fresh /\ \E name \in speakers :
                     \E r \in _remove_speaker(Start, name) :
                        FailureFree(r) /\ Finish("_remove_speaker", {name}, r)

NextFailureFree == InitializeFresh \/ SetMembersOk \/ AddMemberOk \/ RemoveMemberOk \/ Return

SpecFailureFree == InitPhys /\ [][NextFailureFree]_vars

----------------------------------------------------------------------------
\* Vocabulary of the properties

\* The store invariant: coordinator is None iff members is empty, and a set
\* coordinator is a member.
StoreInvariant(c, m) == (c = None <=> m = {}) /\ (c # None => c \in m)

\* The join and unjoin calls of the call that has just returned, in order.
JoinUnjoin == SelectSeq(last.calls, LAMBDA c : c.op \in {"join", "unjoin"})

\* The call that has just returned left the store as it found it.
StoreUnchanged == _coordinator = last.coordinator /\ _members = last.members

\* The call that has just returned is op(name) for a resolvable name.
Returned(op, name) == last.op = op /\ last.arg = {name} /\ name \in speakers

\* Device d answered the transport query of initialize with PLAYING or PAUSED.
ReportsActive(d) ==
    \E i \in 1..Len(last.calls) :
        /\ last.calls[i].op = "get_current_transport_info"
        /\ last.calls[i].dev = d
        /\ last.calls[i].res \in {"PLAYING", "PAUSED_PLAYBACK"}

\* The group snapshot of device d was read, and the store holds exactly it.
StoreIsSnapshotOf(d) ==
    \E i \in 1..Len(last.calls) :
        /\ last.calls[i].op = "group"
        /\ last.calls[i].dev = d
        /\ last.calls[i].res = "ok"
        /\ _coordinator = last.calls[i].to
        /\ _members = last.calls[i].members

\* Reading the group snapshot of device d succeeded.
SnapshotRead(d) ==
    \E i \in 1..Len(last.calls) :
        last.calls[i].op = "group" /\ last.calls[i].dev = d /\ last.calls[i].res = "ok"

----------------------------------------------------------------------------
\* C1: at every operation boundary, also after calls that failed on a device
\* call, coordinator is None iff members is empty and a set coordinator is a
\* member.
C1_StoreInvariant == StoreInvariant(_coordinator, _members)

\* C2 as stated: if a device reports PLAYING or PAUSED at initialize, no join
\* and no unjoin is issued and the store is exactly that device's snapshot.
C2_PreservedWheneverActive ==
    \A d \in speakers :
        (last.op = "initialize" /\ ReportsActive(d))
            => (JoinUnjoin = <<>> /\ StoreIsSnapshotOf(d))

\* C2 amended: if a device reports PLAYING or PAUSED at initialize and reading
\* its group snapshot succeeds, no join and no unjoin is issued and the store
\* is exactly that snapshot.
C2_PreservedWhenSnapshotRead ==
    \A d \in speakers :
        (last.op = "initialize" /\ ReportsActive(d) /\ SnapshotRead(d))
            => (JoinUnjoin = <<>> /\ StoreIsSnapshotOf(d))

\* C2 witness: a paused device whose snapshot names another coordinator and
\* leaves a discovered device out has been adopted.
C2_Witness ==
    \E d \in speakers :
        /\ last.op = "initialize"
        /\ ReportsActive(d)
        /\ SnapshotRead(d)
        /\ \E i \in 1..Len(last.calls) : last.calls[i].res = "PAUSED_PLAYBACK"
        /\ _coordinator # d
        /\ _members # speakers

\* C3: a set_members(desired) with desired non-empty that returns without
\* raising leaves members equal to desired.
C3_Convergence ==
    (last.op = "set_members" /\ last.arg # {} /\ last.err = "ok") => _members = last.arg

\* C3 witness: a successful set_members that had to add a device, to remove
\* two, and to replace the coordinator.
C3_Witness ==
    /\ last.op = "set_members"
    /\ last.err = "ok"
    /\ last.coordinator # None
    /\ last.coordinator \notin last.arg
    /\ last.arg \ last.members # {}
    /\ Cardinality(last.members \ last.arg) >= 2
    /\ _members = last.arg

\* C4: the store is never updated ahead of a device call: an initialize,
\* addMember or removeMember whose first join/unjoin fails leaves coordinator
\* and members as they were.
C4_NoAnticipation ==
    (/\ last.op \in {"initialize", "_add_speaker", "_remove_speaker"}
     /\ Len(JoinUnjoin) = 1
     /\ JoinUnjoin[1].res = "SoCoException")
        => StoreUnchanged

\* C5: removeMember(c) of the coordinator c of a group of at least 2 members
\* always leaves a coordinator that is set, differs from c and is a member.
C5_Promotion ==
    \A c \in speakers :
        (/\ Returned("_remove_speaker", c)
         /\ last.coordinator = c
         /\ c \in last.members
         /\ Cardinality(last.members) >= 2)
            => (_coordinator # None /\ _coordinator # c /\ _coordinator \in _members)

\* C6: once a fresh group has been created, at every operation boundary, also
\* after operations that failed part-way, a device is a member exactly when it
\* is the coordinator or is physically attached to the coordinator.
C6_LogicalMatchesPhysical ==
    fresh => \A d \in speakers :
                d \in _members <=> (_coordinator # None /\ (d = _coordinator \/ phys[d] = _coordinator))

\* C7: set_members with exactly the current member set issues no device call
\* and leaves coordinator and members unchanged.
C7_Idempotence ==
    (last.op = "set_members" /\ last.arg = last.members)
        => (last.calls = <<>> /\ StoreUnchanged)

\* C7 witness: set_members was called with the current members of a group of
\* two or more.
C7_Witness ==
    /\ last.op = "set_members"
    /\ last.arg = last.members
    /\ Cardinality(last.members) >= 2
    /\ last.err = "ok"

\* C8: removing the sole member of a single-device group calls unjoin on it
\* and leaves coordinator None and members empty.
C8_TerminalCollapse ==
    \A c \in speakers :
        (/\ Returned("_remove_speaker", c)
         /\ last.coordinator = c
         /\ last.members = {c})
            => (/\ Len(last.calls) = 1
                /\ last.calls[1].op = "unjoin"
                /\ last.calls[1].dev = c
                /\ _coordinator = None
                /\ _members = {})

\* C9: addMember(name) on a group with a coordinator issues exactly
\* name.join(coordinator); when the join succeeds the call returns and name is
\* added to members, when it fails GroupOperationError is raised and members
\* and coordinator are as before; the coordinator never changes.
C9_AddAfterJoin ==
    \A name \in speakers :
        (Returned("_add_speaker", name) /\ last.coordinator # None)
            => (/\ Len(last.calls) = 1
                /\ last.calls[1].op = "join"
                /\ last.calls[1].dev = name
                /\ last.calls[1].to = last.coordinator
                /\ _coordinator = last.coordinator
                /\ IF last.calls[1].res = "ok"
                   THEN last.err = "ok" /\ _members = last.members \cup {name}
                   ELSE last.err = "GroupOperationError" /\ _members = last.members)

\* C9 witness: an addMember of a device that was not a member failed on its
\* join.
C9_Witness ==
    \E name \in speakers :
        /\ Returned("_add_speaker", name)
        /\ last.coordinator # None
        /\ name \notin last.members
        /\ last.err = "GroupOperationError"

\* C10: removeMember(name) of a member that is not the coordinator issues
\* exactly name.unjoin(); when it succeeds name leaves members, when it fails
\* GroupOperationError is raised and members are as before; the coordinator
\* never changes.
C10_RemoveAfterUnjoin ==
    \A name \in speakers :
        (Returned("_remove_speaker", name) /\ name \in last.members /\ name # last.coordinator)
            => (/\ Len(last.calls) = 1
                /\ last.calls[1].op = "unjoin"
                /\ last.calls[1].dev = name
                /\ _coordinator = last.coordinator
                /\ IF last.calls[1].res = "ok"
                   THEN last.err = "ok" /\ _members = last.members \ {name}
                   ELSE last.err = "GroupOperationError" /\ _members = last.members)

\* C10 witness: a removeMember of a non-coordinator member failed on its
\* unjoin, and another one succeeded.
C10_Witness ==
    \E name \in speakers :
        /\ Returned("_remove_speaker", name)
        /\ name \in last.members
        /\ name # last.coordinator
        /\ last.coordinator \in last.members
        /\ last.err = "GroupOperationError"

\* C11: addMember(name) on a store with no coordinator makes name the
\* coordinator, sets members to exactly {name} and issues no device call.
C11_Bootstrap ==
    \A name \in speakers :
        (Returned("_add_speaker", name) /\ last.coordinator = None)
            => (/\ last.err = "ok"
                /\ last.calls = <<>>
                /\ _coordinator = name
                /\ _members = {name})

\* C11 witness: a device other than the first of the directory has started a
\* group in a store that a removal had emptied.
C11_Witness ==
    \E name \in speakers :
        /\ Returned("_add_speaker", name)
        /\ last.coordinator = None
        /\ last.members = {}
        /\ name # speaker_list[1]
        /\ _coordinator = name

\* C12: addMember and removeMember with a name that does not resolve raise
\* SpeakerNotFoundError (the spec's DeviceNotFoundError), issue no device call
\* and leave the store unchanged; removeMember does so although the name is
\* not a member, for which it would otherwise return without error.
C12_UnknownName ==
    (last.op \in {"_add_speaker", "_remove_speaker"} /\ last.arg = {Unknown})
        => (/\ last.err = "SpeakerNotFoundError"
            /\ last.calls = <<>>
            /\ StoreUnchanged)

\* C12 witness: removeMember of an unresolvable name, which is not a member,
\* has raised on a group of two or more.
C12_Witness ==
    /\ last.op = "_remove_speaker"
    /\ last.arg = {Unknown}
    /\ Unknown \notin last.members
    /\ Cardinality(last.members) >= 2
    /\ last.err = "SpeakerNotFoundError"

\* C13: removeMember(name) of a resolvable device that is not a member returns
\* without error, issues no device call and leaves the store unchanged.
C13_RemoveNonMember ==
    \A name \in speakers :
        (Returned("_remove_speaker", name) /\ name \notin last.members)
            => (/\ last.err = "ok"
                /\ last.calls = <<>>
                /\ StoreUnchanged)

\* C13 witness: removeMember of a resolvable non-member has returned on a
\* store that holds a group.
C13_Witness ==
    \E name \in speakers :
        /\ Returned("_remove_speaker", name)
        /\ name \notin last.members
        /\ last.coordinator \in last.members
        /\ last.err = "ok"

\* C14: set_members with an empty desired set raises GroupOperationError,
\* the controller's set_group with an empty list returns False and
\* POST /api/group with an empty list is answered 400; none of them issues a
\* device call or changes coordinator or members.
C14_EmptyRejected ==
    (last.op \in {"set_members", "set_group", "POST /api/group"} /\ last.arg = {})
        => (/\ last.op = "set_members" => last.err = "GroupOperationError"
            /\ last.op = "set_group" => ret = "False"
            /\ last.op = "POST /api/group" => ret = "400"
            /\ last.calls = <<>>
            /\ StoreUnchanged)

\* C14 witness: POST /api/group with an empty list has been answered 400 while
\* the store holds a group of two or more.
C14_Witness ==
    /\ last.op = "POST /api/group"
    /\ last.arg = {}
    /\ ret = "400"
    /\ _coordinator \in _members
    /\ Cardinality(_members) >= 2

\* C15: for every desired set, unresolvable names included, set_members
\* returns or raises GroupOperationError; no other exception reaches its
\* caller.
C15_OnlyGroupOperationError ==
    last.op = "set_members" => last.err \in {"ok", "GroupOperationError"}

\* The call that has just returned is one of the four group operations.
GroupOperation == last.op \in {"initialize", "set_members", "_add_speaker", "_remove_speaker"}

\* A device call of the kinds ops failed in the call that has just returned.
Failed(ops) ==
    \E i \in 1..Len(last.calls) :
        last.calls[i].op \in ops /\ last.calls[i].res = "SoCoException"

\* C16 as stated: a group operation in which any device call failed (join,
\* unjoin, transport-state query, snapshot read) raises GroupOperationError.
C16_EveryFailurePropagates ==
    (GroupOperation /\ Failed({"join", "unjoin", "get_current_transport_info", "group"}))
        => last.err = "GroupOperationError"

\* C16 amended: a group operation in which a join or an unjoin failed raises
\* GroupOperationError; a failed transport-state query or snapshot read does
\* not by itself.
C16_JoinUnjoinFailurePropagates ==
    (GroupOperation /\ Failed({"join", "unjoin"})) => last.err = "GroupOperationError"

\* C16 witness: an initialize skipped a device whose query failed, went on,
\* and raised GroupOperationError when a join failed.
C16_Witness ==
    /\ last.op = "initialize"
    /\ Failed({"get_current_transport_info"})
    /\ Failed({"join"})
    /\ last.err = "GroupOperationError"

\* C17: the device calls and store updates of one group-mutating request
\* never fall between those of another request handled at the same time.
C17_OneAtATime == ~interleaved

\* C18: when main() starts the application while some device is playing or
\* paused, the construction of the controller issues no join and no unjoin.
C18_StartupLeavesPlaying ==
    (last.op = "main" /\ last.arg # {}) => JoinUnjoin = <<>>

\* The call that has just returned started with a coordinator, every device
\* call it issued succeeded and the device still had the favorite.
Working ==
    /\ last.coordinator # None
    /\ \A i \in 1..Len(last.calls) : last.calls[i].res = "ok"
    /\ last.err # "FavoriteNotFoundError"

\* C19: with n >= 1 cached favorites and a working coordinator, every
\* play_next_favorite returns True and sets current_favorite_index to
\* (previous index + 1) mod n, from n-1 rolling over to 0.
C19_NextFavoriteRollsOver ==
    (last.op = "play_next_favorite" /\ Len(_favorites) >= 1 /\ Working)
        => (/\ ret = "True"
            /\ current_favorite_index = (index_before + 1) % Len(_favorites))

\* C20: play_favorite_by_index(i) is 0-based: for 0 <= i < n it plays the
\* favorite at cached position i (counted from 0) on the coordinator, returns
\* True and sets current_favorite_index to i; for i < 0 or i >= n it returns
\* False and leaves current_favorite_index unchanged.
C20_ZeroBasedIndex ==
    \A i \in Indexes :
        (last.op = "play_favorite_by_index" /\ last.arg = {i} /\ Working)
            => IF 0 <= i /\ i < Len(_favorites)
               THEN /\ ret = "True"
                    /\ current_favorite_index = i
                    /\ last.calls # <<>>
                    /\ last.calls[Len(last.calls)] = Call("play_uri", last.coordinator, _favorites[i + 1], {}, "ok")
               ELSE /\ ret = "False"
                    /\ current_favorite_index = index_before

\* The multiple of 5 nearest to v: the one at distance 2 or less.
Nearest5(v) == CHOOSE m \in {5 * k : k \in (0 - MaxVolume)..MaxVolume} : m - v \in (0 - 2)..2

\* C21: for every integer volume v, set_volume writes to the device the
\* multiple of 5 nearest to v, clamped to 0..100; what is written is always a
\* multiple of 5 between 0 and 100.
C21_VolumeRounded ==
    \A v \in Volumes :
        (last.op = "set_volume" /\ last.arg = {v} /\ last.err # "SpeakerNotFoundError")
            => (/\ Len(last.calls) = 1
                /\ last.calls[1].op = "volume"
                /\ last.calls[1].to % 5 = 0
                /\ last.calls[1].to \in 0..100
                /\ last.calls[1].to = (IF Nearest5(v) < 0 THEN 0
                                       ELSE IF Nearest5(v) > 100 THEN 100
                                       ELSE Nearest5(v)))

\* C21 witness: 28 has been written as 30.
C21_Witness ==
    /\ last.op = "set_volume"
    /\ last.arg = {28}
    /\ ret = "True"
    /\ last.calls[1].to = 30

\* The transport-state queries of the call that has just returned, in order.
Queries == SelectSeq(last.calls, LAMBDA c : c.op = "get_current_transport_info")

\* Some device answered the transport query with PLAYING or PAUSED.
SomeActive == \E d \in speakers : ReportsActive(d)

\* Call number i of fresh-group creation over the directory: unjoin on every
\* device in list order, then join(first device) on every device but the
\* first in list order.
FreshCall(i) ==
    IF i <= Len(speaker_list)
    THEN [op |-> "unjoin", dev |-> speaker_list[i], to |-> None]
    ELSE [op |-> "join", dev |-> speaker_list[i - Len(speaker_list) + 1], to |-> speaker_list[1]]

\* The join and unjoin calls of the call that has just returned are those of
\* fresh-group creation, in order, all of them (2 * n - 1) when the call
\* returned, and up to the one that failed when it raised; the store holds the
\* first device as coordinator and every device as member.
FreshGroupCreated ==
    /\ Len(JoinUnjoin) >= 1
    /\ Len(JoinUnjoin) <= 2 * Len(speaker_list) - 1
    /\ \A i \in 1..Len(JoinUnjoin) :
          /\ JoinUnjoin[i].op = FreshCall(i).op
          /\ JoinUnjoin[i].dev = FreshCall(i).dev
          /\ JoinUnjoin[i].to = FreshCall(i).to
          /\ i < Len(JoinUnjoin) => JoinUnjoin[i].res = "ok"
    /\ IF last.err = "ok"
       THEN Len(JoinUnjoin) = 2 * Len(speaker_list) - 1 /\ JoinUnjoin[Len(JoinUnjoin)].res = "ok"
       ELSE JoinUnjoin[Len(JoinUnjoin)].res = "SoCoException"
    /\ _coordinator = speaker_list[1]
    /\ _members = speakers

\* C22: when no device is active, initialize creates a fresh group: unjoin on
\* every device in list order, then join(first device) on every device but
\* the first in list order, every unjoin before every join and no join on the
\* first device (the sequence ending early only at a call that fails); the
\* store is coordinator = first device, members = all names.
C22_FreshGroupOrder ==
    (last.op = "initialize" /\ ~SomeActive) => FreshGroupCreated

\* C22 witness: an initialize in which no device was active, one query having
\* failed, has issued all 2 * n - 1 calls and returned.
C22_Witness ==
    /\ last.op = "initialize"
    /\ ~SomeActive
    /\ Failed({"get_current_transport_info"})
    /\ last.err = "ok"
    /\ Len(JoinUnjoin) = 2 * Len(speaker_list) - 1

\* Call number i of the promotion protocol that removes coordinator c and
\* leaves the members rem (rem[1] the replacement): unjoin on the replacement;
\* for every other remaining member unjoin, then join(replacement); and last,
\* at position 2 * Len(rem), unjoin on c.
PromotionCall(rem, c, i) ==
    IF i = 1 THEN [op |-> "unjoin", dev |-> rem[1], to |-> None]
    ELSE IF i = 2 * Len(rem) THEN [op |-> "unjoin", dev |-> c, to |-> None]
    ELSE IF i % 2 = 0 THEN [op |-> "unjoin", dev |-> rem[(i \div 2) + 1], to |-> None]
    ELSE [op |-> "join", dev |-> rem[(i \div 2) + 1], to |-> rem[1]]

\* C23: when the coordinator c is removed and members remain, the device
\* calls are those of the promotion protocol in its order: first unjoin on
\* the replacement, which is the coordinator from then on; then for each other
\* remaining member unjoin immediately followed by join(replacement); last the
\* unjoin of c, which never receives a join (the sequence ending early only at
\* a call that fails).
C23_PromotionOrder ==
    \A c \in speakers :
        (/\ Returned("_remove_speaker", c)
         /\ last.coordinator = c
         /\ c \in last.members
         /\ Cardinality(last.members) >= 2)
            => \E rem \in list(last.members \ {c}) :
                  /\ Len(last.calls) >= 1
                  /\ Len(last.calls) <= 2 * Len(rem)
                  /\ \A i \in 1..Len(last.calls) :
                        /\ last.calls[i].op = PromotionCall(rem, c, i).op
                        /\ last.calls[i].dev = PromotionCall(rem, c, i).dev
                        /\ last.calls[i].to = PromotionCall(rem, c, i).to
                        /\ i < Len(last.calls) => last.calls[i].res = "ok"
                  /\ IF last.err = "ok"
                     THEN Len(last.calls) = 2 * Len(rem) /\ last.calls[Len(last.calls)].res = "ok"
                     ELSE last.calls[Len(last.calls)].res = "SoCoException"
                  /\ _coordinator = (IF last.calls[1].res = "ok" THEN rem[1] ELSE c)

\* C23 witness: the coordinator of a group of three has been removed in four
\* calls.
C23_Witness ==
    \E c \in speakers :
        /\ Returned("_remove_speaker", c)
        /\ last.coordinator = c
        /\ c \in last.members
        /\ Cardinality(last.members) = 3
        /\ last.err = "ok"
        /\ Len(last.calls) = 4

\* The names set_members adds and removes: desired - current and
\* current - desired, of the store as the call found it.
ToAdd == last.arg \ last.members

ToRemove == last.members \ last.arg

\* The position of the first unjoin in the call log, or one past its end.
FirstUnjoin ==
    IF \E i \in 1..Len(last.calls) : last.calls[i].op = "unjoin"
    THEN CHOOSE i \in 1..Len(last.calls) :
            /\ last.calls[i].op = "unjoin"
            /\ \A j \in 1..(i - 1) : last.calls[j].op # "unjoin"
    ELSE Len(last.calls) + 1

\* C24: in one set_members every add is applied before any remove: the calls
\* before the first call of a removal are joins of devices of toAdd, one for
\* each, and no removal starts before every name of toAdd has been added;
\* toAdd and toRemove are those of the store as the call found it.
C24_AddsBeforeRemoves ==
    (last.op = "set_members" /\ last.arg # {})
        => (/\ \A i \in 1..(FirstUnjoin - 1) :
                  /\ last.calls[i].op = "join"
                  /\ last.calls[i].dev \in ToAdd
                  /\ \A j \in 1..(FirstUnjoin - 1) : last.calls[j].dev = last.calls[i].dev => j = i
            /\ FirstUnjoin <= Len(last.calls)
                  => (/\ ToRemove # {}
                      /\ ToAdd \subseteq speakers
                      /\ \A name \in ToAdd :
                            \/ \E i \in 1..(FirstUnjoin - 1) : last.calls[i].dev = name /\ last.calls[i].res = "ok"
                            \/ last.coordinator = None))

\* C24 witness: a set_members that added two devices and then removed the
\* coordinator, the promotion rejoining a device that had just been added.
C24_Witness ==
    /\ last.op = "set_members"
    /\ Cardinality(ToAdd) = 2
    /\ last.coordinator \in ToRemove
    /\ last.err = "ok"
    /\ FirstUnjoin = 3
    /\ \E i \in 3..Len(last.calls) : last.calls[i].op = "join" /\ last.calls[i].dev \in ToAdd

\* The name was attempted by the set_members that has just returned: a call
\* was issued to its device, or the store changed for it without one.
Attempted(name) ==
    \/ \E i \in 1..Len(last.calls) : last.calls[i].dev = name
    \/ (name \in _members) # (name \in last.members)

\* C25: in set_members the failure of one add or remove does not block the
\* rest: every resolvable name of toAdd and toRemove is attempted.
C25_FailureDoesNotBlock ==
    (last.op = "set_members" /\ last.arg # {})
        => \A name \in (ToAdd \cup ToRemove) \cap speakers : Attempted(name)

\* C30: from a group whose coordinator c is in desired, set_members(desired)
\* with desired a subset of the current members issues one unjoin to each
\* device of current - desired and no other device call (the calls ending
\* early only at an unjoin that fails), and leaves the coordinator c.
C30_SubsetOnlyUnjoins ==
    (/\ last.op = "set_members"
     /\ last.arg # {}
     /\ last.arg \subseteq last.members
     /\ last.coordinator \in last.arg)
        => (/\ \A i \in 1..Len(last.calls) :
                  /\ last.calls[i].op = "unjoin"
                  /\ last.calls[i].dev \in ToRemove
                  /\ \A j \in 1..Len(last.calls) : last.calls[j].dev = last.calls[i].dev => j = i
                  /\ i < Len(last.calls) => last.calls[i].res = "ok"
            /\ IF last.err = "ok"
               THEN /\ Len(last.calls) = Cardinality(ToRemove)
                    /\ \A i \in 1..Len(last.calls) : last.calls[i].res = "ok"
               ELSE /\ last.err = "GroupOperationError"
                    /\ last.calls # <<>>
                    /\ last.calls[Len(last.calls)].res = "SoCoException"
            /\ _coordinator = last.coordinator)

\* C30 witness: a group of three has been reduced to its coordinator by two
\* unjoin calls.
C30_Witness ==
    /\ last.op = "set_members"
    /\ last.arg = {last.coordinator}
    /\ Cardinality(last.members) = 3
    /\ last.err = "ok"
    /\ Len(last.calls) = 2
    /\ _members = last.arg

\* C26: a removeMember(c) of the coordinator c in which a device call of the
\* promotion or the final unjoin fails raises GroupOperationError and leaves
\* members as before the call less c: c is gone and is not put back.
C26_FailedRemovalDropsCoordinator ==
    \A c \in speakers :
        (/\ Returned("_remove_speaker", c)
         /\ last.coordinator = c
         /\ c \in last.members
         /\ Failed({"join", "unjoin"}))
            => (/\ last.err = "GroupOperationError"
                /\ c \notin _members
                /\ _members = last.members \ {c})

\* C26 witness: the removal of the coordinator of a group of three failed on
\* a join of the promotion, after the replacement had been installed.
C26_Witness ==
    \E c \in speakers :
        /\ Returned("_remove_speaker", c)
        /\ last.coordinator = c
        /\ c \in last.members
        /\ Cardinality(last.members) >= 3
        /\ Failed({"join"})
        /\ _coordinator # c
        /\ c \notin _members

\* C27: initialize queries the devices in list order; a query that fails does
\* not end the scan; the scan ends at the first device that answers PLAYING
\* or PAUSED, which is the reference device (the one whose group is read), and
\* no device after it is queried; the queries precede every other call.
C27_ScanOrder ==
    last.op = "initialize"
        => (/\ Len(Queries) >= 1
            /\ Len(Queries) <= Len(speaker_list)
            /\ \A i \in 1..Len(Queries) :
                  /\ last.calls[i] = Queries[i]
                  /\ Queries[i].dev = speaker_list[i]
                  /\ i < Len(Queries) => Queries[i].res \notin {"PLAYING", "PAUSED_PLAYBACK"}
            /\ IF Queries[Len(Queries)].res \in {"PLAYING", "PAUSED_PLAYBACK"}
               THEN /\ Len(last.calls) > Len(Queries)
                    /\ last.calls[Len(Queries) + 1].op = "group"
                    /\ last.calls[Len(Queries) + 1].dev = Queries[Len(Queries)].dev
               ELSE /\ Len(Queries) = Len(speaker_list)
                    /\ \A i \in 1..Len(last.calls) : last.calls[i].op # "group")

\* C27 witness: the first query failed, the second device was stopped, the
\* third was paused and became the reference device.
C27_Witness ==
    /\ last.op = "initialize"
    /\ Len(Queries) >= 3
    /\ Queries[1].res = "SoCoException"
    /\ Queries[2].res = "STOPPED"
    /\ Queries[3].res = "PAUSED_PLAYBACK"
    /\ SnapshotRead(speaker_list[3])

\* C28: when a playing or paused device was found and reading its group
\* snapshot fails, initialize goes on to fresh-group creation: unjoin on every
\* device, join(first device) on the others, and the store is the first
\* device with all names, nothing of a snapshot.
C28_SnapshotFailureFallsThrough ==
    (last.op = "initialize" /\ SomeActive /\ Failed({"group"})) => FreshGroupCreated

\* C28 witness: the last device of the list was playing, reading its group
\* failed, and the fresh group was created in full.
C28_Witness ==
    /\ last.op = "initialize"
    /\ ReportsActive(speaker_list[Len(speaker_list)])
    /\ Failed({"group"})
    /\ last.err = "ok"
    /\ Len(JoinUnjoin) = 2 * Len(speaker_list) - 1
    /\ _coordinator = speaker_list[1]

\* C29: when a join or an unjoin fails during fresh-group creation,
\* initialize raises GroupOperationError, the failing call is its last
\* device call, and the store is left at coordinator = first device, members
\* = all names, whatever it held before.
C29_FailedCreationKeepsNewStore ==
    (last.op = "initialize" /\ Failed({"join", "unjoin"}))
        => (/\ last.err = "GroupOperationError"
            /\ last.calls[Len(last.calls)].res = "SoCoException"
            /\ last.calls[Len(last.calls)].op \in {"join", "unjoin"}
            /\ \A i \in 1..(Len(last.calls) - 1) :
                  last.calls[i].op \in {"join", "unjoin"} => last.calls[i].res = "ok"
            /\ _coordinator = speaker_list[1]
            /\ _members = speakers)

\* C29 witness: the very first unjoin failed, so no device was joined, on a
\* store that held another group before; the store now names every device.
C29_Witness ==
    /\ last.op = "initialize"
    /\ Len(JoinUnjoin) = 1
    /\ JoinUnjoin[1].res = "SoCoException"
    /\ last.coordinator # None
    /\ last.members # speakers
    /\ _coordinator = speaker_list[1]
    /\ _members = speakers

\* The calls of the call that has just returned that ask for a favorite or
\* play one, in order.
FavoriteCalls == SelectSeq(last.calls, LAMBDA c : c.op \in {"get_sonos_favorites", "play_uri"})

\* The store holds what a completed initialize leaves: the fresh group of all
\* speakers under the first one, or the snapshot read from the device that
\* was found playing or paused.
StoreInitialized ==
    IF JoinUnjoin # <<>>
    THEN _coordinator = speaker_list[1] /\ _members = speakers
    ELSE \E d \in speakers : ReportsActive(d) /\ StoreIsSnapshotOf(d)

\* C31: play_favorite_by_index on a store with no coordinator first runs
\* initialize over the directory (its scan starting at the first device) and
\* never gives up for lack of a group; when initialize raises nothing is asked
\* of any device afterwards and False is returned; when it completes the store
\* holds the group it made or adopted, and the favorite is looked up and
\* played on that group's coordinator.
C31_AutoInitialize ==
    \A index \in Indexes :
        (last.op = "play_favorite_by_index" /\ last.arg = {index} /\ last.coordinator = None)
            => (/\ last.err # "return False"
                /\ Len(Queries) >= 1
                /\ last.calls[1] = Queries[1]
                /\ Queries[1].dev = speaker_list[1]
                /\ IF Failed({"join", "unjoin"})
                   THEN /\ last.err = "GroupOperationError"
                        /\ ret = "False"
                        /\ FavoriteCalls = <<>>
                   ELSE /\ StoreInitialized
                        /\ _coordinator \in speakers
                        /\ \A i \in 1..Len(FavoriteCalls) : FavoriteCalls[i].dev = _coordinator
                        /\ (index >= 1 /\ index <= Len(_favorites)) => FavoriteCalls # <<>>
                        /\ ret = "True" <=> (/\ FavoriteCalls # <<>>
                                             /\ FavoriteCalls[Len(FavoriteCalls)].op = "play_uri"
                                             /\ FavoriteCalls[Len(FavoriteCalls)].res = "ok"))

\* C31 witness: with no coordinator in the store and no device playing,
\* play_favorite_by_index has regrouped all speakers and played on the first.
C31_Witness ==
    /\ last.op = "play_favorite_by_index"
    /\ last.coordinator = None
    /\ last.members = {}
    /\ ~SomeActive
    /\ Len(JoinUnjoin) = 2 * Len(speaker_list) - 1
    /\ ret = "True"
    /\ _members = speakers
    /\ last.calls[Len(last.calls)].op = "play_uri"
    /\ last.calls[Len(last.calls)].dev = speaker_list[1]

\* The call that has just returned started from a store that satisfies the
\* store invariant.
StartedConsistent == StoreInvariant(last.coordinator, last.members)

\* The call that has just returned went through the last-member branch of
\* _remove_coordinator: it is the only place where the last name leaves members.
Disbanded == last.members # {} /\ _members = {}

\* C32 as stated: from a store that satisfies the store invariant, a
\* set_members with a non-empty desired set never goes through the last-member
\* branch and never leaves coordinator = None, whether it returns or raises.
C32_NeverWithoutCoordinator ==
    (last.op = "set_members" /\ last.arg # {} /\ StartedConsistent)
        => (~Disbanded /\ _coordinator # None)

\* C32 amended: from a store that satisfies the store invariant, a set_members
\* with a non-empty desired set never goes through the last-member branch and
\* never turns a set coordinator into None; it leaves coordinator = None only
\* when it started from the empty store and raised on an unresolvable name
\* before any device was added.  Of all group operations on such a store, only
\* removeMember of the sole member leaves the group empty.
C32_NeverDisbands ==
    /\ (last.op = "set_members" /\ last.arg # {} /\ StartedConsistent)
          => (/\ ~Disbanded
              /\ last.coordinator # None => _coordinator # None
              /\ _coordinator = None
                    => (/\ last.coordinator = None
                        /\ last.err = "SpeakerNotFoundError"
                        /\ Unknown \in last.arg
                        /\ last.calls = <<>>
                        /\ _members = {}))
    /\ (GroupOperation /\ StartedConsistent /\ last.coordinator # None
           /\ (_coordinator = None \/ _members = {}))
          => (last.op = "_remove_speaker" /\ last.arg = {last.coordinator}
                 /\ last.members = {last.coordinator})

\* C32 witness: a set_members that replaced every member of a group of two,
\* the coordinator with them, has returned with a coordinator.
C32_Witness ==
    /\ last.op = "set_members"
    /\ StartedConsistent
    /\ Cardinality(last.members) = 2
    /\ last.arg \cap last.members = {}
    /\ last.arg \subseteq speakers
    /\ last.err = "ok"
    /\ _coordinator \in last.arg

\* C33: after a fresh-group initialize that completed and any failure-free
\* sequence of set_members, addMember and removeMember on resolvable names,
\* the coordinator stands alone, every other member is attached to the
\* coordinator, and every discovered device that is not a member stands alone.
C33_PhysicalMatchesStore ==
    fresh => \A d \in speakers :
                phys[d] = (IF d \in _members /\ d # _coordinator THEN _coordinator ELSE None)

\* How many unjoin calls the call that has just returned issued to device d.
Unjoins(d) == Cardinality({i \in 1..Len(last.calls) : last.calls[i].op = "unjoin" /\ last.calls[i].dev = d})

\* Device d was installed as replacement coordinator and removed later in the
\* call that has just returned: it was unjoined when promoted and unjoined
\* again when it left, without having been joined to anything in between (a
\* plain member that a promotion re-homes is joined after its unjoin).
PromotedThenRemoved(d) ==
    \E i, j \in 1..Len(last.calls) :
        /\ i < j
        /\ last.calls[i].op = "unjoin" /\ last.calls[i].dev = d
        /\ last.calls[j].op = "unjoin" /\ last.calls[j].dev = d
        /\ \A k \in (i + 1)..(j - 1) : last.calls[k].dev # d

\* C34: in one set_members the coordinator is replaced at most once: no
\* device that the call removes is installed as replacement, and no surviving
\* member is unjoined more than once.  Stated of the calls that start from a
\* consistent store, name resolvable devices and return without error.
C34_OnePromotion ==
    (/\ last.op = "set_members"
     /\ last.arg # {}
     /\ last.arg \subseteq speakers
     /\ StartedConsistent
     /\ last.err = "ok")
        => (/\ \A d \in ToRemove : ~PromotedThenRemoved(d)
            /\ \A d \in last.arg : Unjoins(d) <= 1)

\* C35: the coordinator changes only through initialize, addMember on an
\* empty group, or removal of the current coordinator (by removeMember or by
\* a set_members whose desired set leaves it out): addMember on a group that
\* has a coordinator or members and removeMember of any other name leave the
\* coordinator unchanged whether they return or raise, and set_members with
\* the current coordinator in desired leaves it unchanged.
C35_CoordinatorFrame ==
    /\ (last.op = "_add_speaker" /\ (last.coordinator # None \/ last.members # {}))
          => _coordinator = last.coordinator
    /\ (last.op = "_remove_speaker" /\ last.arg # {last.coordinator})
          => _coordinator = last.coordinator
    /\ (last.op = "set_members" /\ last.coordinator # None /\ last.coordinator \in last.arg)
          => _coordinator = last.coordinator
    /\ (GroupOperation /\ _coordinator # last.coordinator)
          => \/ last.op = "initialize"
             \/ last.op = "_add_speaker" /\ last.coordinator = None
             \/ last.op = "_remove_speaker" /\ last.arg = {last.coordinator}
             \/ last.op = "set_members" /\ (last.coordinator = None \/ last.coordinator \notin last.arg)

\* C35 witness: a set_members that keeps the coordinator added a device and
\* failed while removing another; the coordinator is the one it found.
C35_Witness ==
    /\ last.op = "set_members"
    /\ last.coordinator \in last.arg
    /\ ToAdd # {}
    /\ Cardinality(ToRemove) >= 1
    /\ Failed({"unjoin"})
    /\ last.err = "GroupOperationError"
    /\ _coordinator = last.coordinator

\* C36: no operation calls join on a device with that same device as the
\* target: in every initialize, set_members, addMember and removeMember
\* (addMember of a name that is already a member included) each join is
\* issued to a device other than the coordinator it names.
C36_NoSelfJoin ==
    GroupOperation
        => \A i \in 1..Len(last.calls) :
              last.calls[i].op = "join" => last.calls[i].dev # last.calls[i].to

\* C37: after every set_members that returns without error, also one that
\* follows calls that failed on device calls and left the store inconsistent,
\* the coordinator is set and is an element of members.
C37_SetMembersRepairs ==
    (last.op = "set_members" /\ last.err = "ok")
        => (_coordinator # None /\ _coordinator \in _members)

\* What a caller and the devices can observe of a call of GroupManager: the
\* store it leaves, the device calls it issued with their results, and
\* whether it failed (raised GroupOperationError).
Raised(S) ==
    {[coordinator |-> r.coordinator, members |-> r.members, calls |-> r.calls,
      failed |-> (r.err = "GroupOperationError")] : r \in S}

\* The same of a call of the legacy controller, which fails by returning
\* False.
ReturnedFalse(S) ==
    {[coordinator |-> r.st.coordinator, members |-> r.st.members, calls |-> r.st.calls,
      failed |-> (r.ret = "False")] : r \in S}

\* The store as the call that has just returned found it.
Before == [coordinator |-> last.coordinator, members |-> last.members, phys |-> Untracked,
           calls |-> <<>>, err |-> "ok"]

====
